---- MODULE Spec2Model ----
(***************************************************************************)
(* Verification model of the predictive-maintenance repository:            *)
(*   generate_data.py  the synthetic sensor-data generator                 *)
(*   api.py            the prediction service                              *)
(*                                                                         *)
(* Real quantities are fixed-point integers.  health_score, wear, stress   *)
(* and probabilities count units of 0.00001 (1.0 is ONE = 100000);         *)
(* temperature counts degrees C, vibration counts tenths of m/s^2 and      *)
(* load counts percent.                                                    *)
(***************************************************************************)
EXTENDS Integers, Sequences, FiniteSets, TLC

VARIABLES
    pc,          \* generate_data.py: position of the module-level script
    m,           \* generate_data.py: loop variable of "for m in range(N_MACHINES)"
    all_data,    \* generate_data.py: list of the per-machine frames
    data,        \* generate_data.py: the concatenated table (columns)
    output,      \* generate_data.py: what was written to synthetic_sensor_data.csv
    rng,         \* numpy's process-global generator: calls made since seed(42)
    workers,     \* per machine: a simulate_machine call running on its own worker
    calls,       \* history: how many np.random calls were made so far, by anyone
    model,       \* api.py: the classifier loaded at startup
    feature_cols,\* api.py: the ordered feature names loaded at startup
    slots        \* api.py: the requests being handled, one per slot

simVars == <<pc, m, all_data, data, output>>
rngVars == <<rng, workers, calls>>
apiVars == <<model, feature_cols, slots>>
vars == <<pc, m, all_data, data, output, rng, workers, calls, model, feature_cols, slots>>

(***************************************************************************)
(* generate_data.py: configuration                                         *)
(***************************************************************************)
\* N_MACHINES = 50 in the source; the model simulates this many machines.
N_MACHINES == 2
N_DAYS == 60
\* FREQ = "10min": pd.date_range yields 144 instants per day.
STEPS_PER_DAY == 144
\* len(pd.date_range(start, start + N_DAYS days, freq=FREQ)), both ends included.
N_STEPS == N_DAYS * STEPS_PER_DAY + 1
SEED == 42

\* np.ones(N_STEPS): 1.0 in units of 0.00001.
ONE == 100000
HEALTH_THRESHOLD == 30000

\* np.random.uniform(0.00015, 0.0003)
BASE_WEAR_LO == 15
BASE_WEAR_HI == 30
\* The base wear rates the model draws: both ends of the range and 0.0002,
\* with which a machine that meets no stress passes through exactly 0.3.
BaseWearSeq == << BASE_WEAR_LO, 20, BASE_WEAR_HI >>
BaseWearRates == {BaseWearSeq[j] : j \in 1..Len(BaseWearSeq)}
WearIndex(b) == CHOOSE j \in 1..Len(BaseWearSeq) : BaseWearSeq[j] = b

TEMP_T1 == 65
TEMP_T2 == 75
TEMP_T3 == 85
TEMP_W1 == 500
TEMP_W2 == 1000
TEMP_W3 == 1500
VIB_T1 == 18
VIB_T2 == 22
VIB_T3 == 26
VIB_W1 == 700
VIB_W2 == 1200
VIB_W3 == 1800
LOAD_T1 == 80
LOAD_T2 == 90
LOAD_W1 == 500
LOAD_W2 == 1000
LOAD_CLIP_LO == 10
LOAD_CLIP_HI == 110

Max(a, b) == IF a > b THEN a ELSE b
Min(a, b) == IF a < b THEN a ELSE b

\* A function over 1..n as the sequence of its values: an array or a column.
Array(f) == << >> \o f

\* np.clip(x, lo, hi)
Clip(x, lo, hi) == Max(lo, Min(x, hi))

(***************************************************************************)
(* The random inputs of one simulate_machine call.  The sums               *)
(* base + drift + noise of lines 56-59 are drawn from two profiles: "calm" *)
(* never exceeds a threshold; "stress" is hot at t = 0, then sweeps every  *)
(* threshold from exactly-at to just-above, then stays above all of them.  *)
(***************************************************************************)
Calm == [temp |-> 50, vibration |-> 10, load |-> 60]
Hot == [temp |-> 90, vibration |-> 30, load |-> 120]
Sweep ==
    << [temp |-> 65, vibration |-> 10, load |-> 60],
       [temp |-> 66, vibration |-> 10, load |-> 60],
       [temp |-> 75, vibration |-> 10, load |-> 60],
       [temp |-> 76, vibration |-> 10, load |-> 60],
       [temp |-> 85, vibration |-> 10, load |-> 60],
       [temp |-> 86, vibration |-> 10, load |-> 60],
       [temp |-> 50, vibration |-> 18, load |-> 5],
       [temp |-> 50, vibration |-> 19, load |-> 60],
       [temp |-> 50, vibration |-> 22, load |-> 60],
       [temp |-> 50, vibration |-> 23, load |-> 60],
       [temp |-> 50, vibration |-> 26, load |-> 60],
       [temp |-> 50, vibration |-> 27, load |-> 60],
       [temp |-> 50, vibration |-> 10, load |-> 80],
       [temp |-> 50, vibration |-> 10, load |-> 81],
       [temp |-> 50, vibration |-> 10, load |-> 90],
       [temp |-> 50, vibration |-> 10, load |-> 91] >>
ProfileNames == << "calm", "stress" >>
Profiles == {ProfileNames[k] : k \in 1..Len(ProfileNames)}
ProfileIndex(p) == CHOOSE k \in 1..Len(ProfileNames) : ProfileNames[k] = p

\* The unclipped signal of profile p at timestep t (0-based).
RawSignal(p, t) ==
    IF p = "calm" THEN Calm
    ELSE IF t >= 1 /\ t <= Len(Sweep) THEN Sweep[t]
    ELSE Hot

(***************************************************************************)
(* simulate_machine: the health-score loop                                 *)
(***************************************************************************)
TempStressGE(x) ==
    (IF x >= TEMP_T1 THEN TEMP_W1 ELSE 0)
  + (IF x >= TEMP_T2 THEN TEMP_W2 ELSE 0)
  + (IF x >= TEMP_T3 THEN TEMP_W3 ELSE 0)

\* Lines 72-77.
TempStress(x) ==
    (IF x > TEMP_T1 THEN TEMP_W1 ELSE 0)
  + (IF x > TEMP_T2 THEN TEMP_W2 ELSE 0)
  + (IF x > TEMP_T3 THEN TEMP_W3 ELSE 0)

\* Lines 80-85.
VibrationStress(x) ==
    (IF x > VIB_T1 THEN VIB_W1 ELSE 0)
  + (IF x > VIB_T2 THEN VIB_W2 ELSE 0)
  + (IF x > VIB_T3 THEN VIB_W3 ELSE 0)

\* Lines 88-91.
LoadStress(x) ==
    (IF x > LOAD_T1 THEN LOAD_W1 ELSE 0)
  + (IF x > LOAD_T2 THEN LOAD_W2 ELSE 0)

\* Lines 69-91: stress starts at 0.0 in every iteration.
Stress(temp_t, vibration_t, load_t) ==
    0 + TempStress(temp_t) + VibrationStress(vibration_t) + LoadStress(load_t)

TotalWearNoBase(base_wear_rate, stress) == stress

\* Line 94.
TotalWear(base_wear_rate, stress) == base_wear_rate + stress

NextHealthNoClamp(prev, total_wear) == prev - total_wear

\* Line 97.
NextHealth(prev, total_wear) == Max(0, prev - total_wear)

\* Lines 68-97 for t in lo..hi, given health_score[lo - 1] = prev: the values
\* health_score[lo..hi].  Element t is computed from element t - 1 as in the
\* source; the range is halved so that the evaluation nests only
\* logarithmically deep.  Arrays are 1-based here: index t + 1 holds step t.
RECURSIVE HealthLoop(_, _, _, _, _, _, _)
HealthLoop(temp, vibration, load_pct, base_wear_rate, prev, lo, hi) ==
    IF lo > hi THEN << >>
    ELSE IF lo = hi
    THEN << NextHealth(prev,
                TotalWear(base_wear_rate,
                    Stress(temp[lo + 1], vibration[lo + 1], load_pct[lo + 1]))) >>
    ELSE LET mid == (lo + hi) \div 2
             left == HealthLoop(temp, vibration, load_pct, base_wear_rate, prev, lo, mid)
         IN  left \o HealthLoop(temp, vibration, load_pct, base_wear_rate,
                                left[Len(left)], mid + 1, hi)

\* Line 21: time_index, as the 0-based positions of its instants.
time_index == Array([i \in 1..N_STEPS |-> i - 1])

\* Lines 56-59: the signal arrays, tabulated per profile; load_pct is clipped.
SignalTable ==
    Array([k \in 1..Len(ProfileNames) |->
        [ temp |-> Array([i \in 1..N_STEPS |-> RawSignal(ProfileNames[k], i - 1).temp]),
          vibration |->
              Array([i \in 1..N_STEPS |-> RawSignal(ProfileNames[k], i - 1).vibration]),
          load_pct |-> Array([i \in 1..N_STEPS |->
              Clip(RawSignal(ProfileNames[k], i - 1).load, LOAD_CLIP_LO, LOAD_CLIP_HI)]) ]])

\* Lines 63-97: the health_score array the loop leaves, tabulated per profile
\* and per base wear rate.
HealthTable ==
    Array([k \in 1..Len(ProfileNames) |->
        Array([j \in 1..Len(BaseWearSeq) |->
            << ONE >> \o HealthLoop(SignalTable[k].temp, SignalTable[k].vibration,
                                    SignalTable[k].load_pct, BaseWearSeq[j],
                                    ONE, 1, N_STEPS - 1)])])

\* "machine_id": machine_id broadcast over the rows of a frame.
MachineIdColumn ==
    Array([k \in 1..(N_MACHINES + 1) |-> Array([i \in 1..N_STEPS |-> k - 1])])

\* Lines 31-110: the frame simulate_machine returns, for the drawn signals
\* and base wear rate.  pressure_psi and rpm take no part in health_score and
\* are left out.
simulate_machine(machine_id, profile, base_wear_rate) ==
    LET k == ProfileIndex(profile)
    IN  [ machine_id |-> MachineIdColumn[machine_id + 1],
          timestamp |-> time_index,
          temp_c |-> SignalTable[k].temp,
          vibration_ms2 |-> SignalTable[k].vibration,
          load_pct |-> SignalTable[k].load_pct,
          health_score |-> HealthTable[k][WearIndex(base_wear_rate)] ]

(***************************************************************************)
(* generate_data.py: the table and the failure events                      *)
(***************************************************************************)
\* Insert frame f into the frames fs, which ascend in machine_id.
RECURSIVE InsertFrame(_, _)
InsertFrame(fs, f) ==
    IF fs = << >> THEN << f >>
    ELSE IF fs[Len(fs)].machine_id[1] <= f.machine_id[1] THEN Append(fs, f)
    ELSE Append(InsertFrame(SubSeq(fs, 1, Len(fs) - 1), f), fs[Len(fs)])

\* Line 124: sort_values(["machine_id", "timestamp"]).  Every frame holds one
\* machine_id and ascends in timestamp, so sorting the rows orders whole
\* frames by machine_id.
RECURSIVE SortFrames(_)
SortFrames(fs) ==
    IF fs = << >> THEN << >>
    ELSE InsertFrame(SortFrames(SubSeq(fs, 1, Len(fs) - 1)), fs[Len(fs)])

\* Line 123: pd.concat(frames, ignore_index=True), column by column.
RECURSIVE Concat(_)
Concat(fs) ==
    IF fs = << >>
    THEN [machine_id |-> << >>, timestamp |-> << >>, health_score |-> << >>,
          failed |-> << >>]
    ELSE LET head == Concat(SubSeq(fs, 1, Len(fs) - 1))
             f == fs[Len(fs)]
         IN  [ machine_id |-> head.machine_id \o f.machine_id,
               timestamp |-> head.timestamp \o f.timestamp,
               health_score |-> head.health_score \o f.health_score,
               failed |-> << >> ]

\* Lines 123-125.  The sensor columns are carried along unchanged and are
\* left out of the table.
ConcatSorted(frames) == Concat(SortFrames(frames))

LowHealthLE(health_score) ==
    Array([i \in 1..Len(health_score) |-> health_score[i] <= HEALTH_THRESHOLD])

\* Line 139.
LowHealth(health_score) ==
    Array([i \in 1..Len(health_score) |-> health_score[i] < HEALTH_THRESHOLD])

\* Lines 143-144: groupby("machine_id")[col].shift(1).  The table is sorted by
\* machine_id, so a row's predecessor within its group is the row above it
\* when that row has the same machine_id.  A missing value (NaN) is {}.
GroupShift(machine_id, col) ==
    Array([i \in 1..Len(col) |->
        IF i > 1 /\ machine_id[i - 1] = machine_id[i] THEN {col[i - 1]} ELSE {}])

\* Line 145: fillna(value).
FillNa(col, value) ==
    Array([i \in 1..Len(col) |->
        IF col[i] = {} THEN value ELSE CHOOSE v \in col[i] : TRUE])

FailedEveryLowRow(low_health, low_health_prev) ==
    Array([i \in 1..Len(low_health) |-> IF low_health[i] = TRUE THEN 1 ELSE 0])

\* Lines 149-153.
Failed(low_health, low_health_prev) ==
    Array([i \in 1..Len(low_health) |->
        IF low_health[i] = TRUE /\ low_health_prev[i] = FALSE THEN 1 ELSE 0])

\* Lines 139-156: the helper columns are dropped again.
WithFailures(table) ==
    LET low_health == LowHealth(table.health_score)
        low_health_prev == FillNa(GroupShift(table.machine_id, low_health), FALSE)
    IN  [table EXCEPT !.failed = Failed(low_health, low_health_prev)]

NoTable == [machine_id |-> << >>, timestamp |-> << >>,
            health_score |-> << >>, failed |-> << >>]
Machines == 0..(N_MACHINES - 1)

(***************************************************************************)
(* numpy's global generator.  np.random.seed(SEED) fixes the stream; every *)
(* np.random call takes the next values of it.  simulate_machine calls it  *)
(* in three blocks: lines 38-42 (five baselines), lines 45-53 (two drift   *)
(* magnitudes and five noise arrays) and line 66 (the base wear rate).     *)
(***************************************************************************)
BLOCK_CALLS == << 5, 7, 1 >>
NBlocks == Len(BLOCK_CALLS)
CALLS_PER_MACHINE == BLOCK_CALLS[1] + BLOCK_CALLS[2] + BLOCK_CALLS[3]

\* What the call after c earlier calls returns, as a number of 0..100.
RngValue(c) == ((SEED + 31 * c) * (c + 17)) % 101

RngAdvanceStuck(c, n) == c

\* The generator after n more calls.
RngAdvance(c, n) == c + n

\* What n calls return together when c calls were made before them.
RECURSIVE BlockValue(_, _)
BlockValue(c, n) == IF n = 0 THEN 0 ELSE RngValue(c) + BlockValue(c + 1, n - 1)

\* Lines 56-59: the signals are a function of the values of the first two
\* blocks; here they select the profile.
ProfileOf(signal) == ProfileNames[(signal % Len(ProfileNames)) + 1]

\* Line 66: the base wear rate is a function of the value of the third block.
WearOf(value) == BaseWearSeq[(value % Len(BaseWearSeq)) + 1]

IdleWorker == [block |-> 0, returned |-> FALSE, signal |-> 0, wear |-> 0,
               first |-> 0, last |-> 0]

SimInit ==
    /\ pc = "simulate"
    /\ m = 0
    /\ all_data = << >>
    /\ data = NoTable
    /\ output = NoTable
    /\ rng = 0
    /\ workers = [w \in Machines |-> IdleWorker]
    /\ calls = 0

\* Lines 119-121: one iteration of the loop over the machines.  The draws of
\* simulate_machine (lines 38-53 and 66) are arbitrary values of their ranges.
SimulateMachine ==
    /\ pc = "simulate"
    /\ m < N_MACHINES
    /\ \E profile \in Profiles, base_wear_rate \in BaseWearRates :
          all_data' = Append(all_data, simulate_machine(m, profile, base_wear_rate))
    /\ m' = m + 1
    /\ rng' = RngAdvance(rng, CALLS_PER_MACHINE)
    /\ calls' = calls + CALLS_PER_MACHINE
    /\ UNCHANGED <<pc, data, output, workers, model, feature_cols, slots>>

\* Lines 123-125.
BuildTable ==
    /\ pc = "simulate"
    /\ m = N_MACHINES
    /\ data' = ConcatSorted(all_data)
    /\ pc' = "derive"
    /\ UNCHANGED <<m, all_data, output, rng, workers, calls, model, feature_cols, slots>>

\* Lines 136-156.
DeriveFailures ==
    /\ pc = "derive"
    /\ data' = WithFailures(data)
    /\ pc' = "save"
    /\ UNCHANGED <<m, all_data, output, rng, workers, calls, model, feature_cols, slots>>

\* Lines 167-168.
SaveCsv ==
    /\ pc = "save"
    /\ output' = data
    /\ pc' = "done"
    /\ UNCHANGED <<m, all_data, data, rng, workers, calls, model, feature_cols, slots>>

ApiNotStarted ==
    /\ model = [intercept |-> 0, coef |-> << >>]
    /\ feature_cols = << >>
    /\ slots = << >>

Init == SimInit /\ ApiNotStarted
Next == SimulateMachine \/ BuildTable \/ DeriveFailures \/ SaveCsv
Spec == Init /\ [][Next]_vars

(***************************************************************************)
(* The machines simulated by parallel workers that share the seeded        *)
(* generator: every worker runs simulate_machine for its machine, and the  *)
(* workers' blocks of np.random calls interleave in any order.             *)
(***************************************************************************)
\* Lines 38-53 and 66: the next block of np.random calls of worker w.
DrawBlock(w) ==
    /\ workers[w].block < NBlocks
    /\ LET b == workers[w].block + 1
           value == BlockValue(rng, BLOCK_CALLS[b])
       IN  /\ workers' = [workers EXCEPT
                  ![w].block = b,
                  ![w].signal = IF b < NBlocks THEN (@ + value) % Len(ProfileNames) ELSE @,
                  ![w].wear = IF b = NBlocks THEN value ELSE @,
                  ![w].first = IF b = 1 THEN calls ELSE @,
                  ![w].last = calls + BLOCK_CALLS[b]]
           /\ rng' = RngAdvance(rng, BLOCK_CALLS[b])
           /\ calls' = calls + BLOCK_CALLS[b]
    /\ UNCHANGED <<pc, m, all_data, data, output, model, feature_cols, slots>>

\* Lines 55-110 and 121: worker w computes its frame, which is appended.
ReturnFrame(w) ==
    /\ workers[w].block = NBlocks
    /\ ~workers[w].returned
    /\ all_data' = Append(all_data,
           simulate_machine(w, ProfileOf(workers[w].signal), WearOf(workers[w].wear)))
    /\ workers' = [workers EXCEPT ![w].returned = TRUE]
    /\ UNCHANGED <<pc, m, data, output, rng, calls, model, feature_cols, slots>>

NextSeeded == \E w \in Machines : DrawBlock(w) \/ ReturnFrame(w)
SpecSeeded == Init /\ [][NextSeeded]_vars

\* The frame of machine k in the run of the script: the loop of lines 119-121
\* simulates the machines one after another in ascending order, so machine k
\* makes the calls number k * CALLS_PER_MACHINE + 1 .. (k + 1) * CALLS_PER_MACHINE.
SequentialFrame(k) ==
    LET c == k * CALLS_PER_MACHINE
    IN  simulate_machine(k,
            ProfileOf(BlockValue(c, BLOCK_CALLS[1])
                      + BlockValue(c + BLOCK_CALLS[1], BLOCK_CALLS[2])),
            WearOf(BlockValue(c + BLOCK_CALLS[1] + BLOCK_CALLS[2], BLOCK_CALLS[3])))

(***************************************************************************)
(* api.py: the prediction service                                          *)
(***************************************************************************)
\* How many requests the service handles at the same time.
MaxInFlight == 2
Slots == 1..MaxInFlight

\* artifact["feature_cols"]: the names the loaded model expects, in order.
FEATURES == << "f1", "f2" >>

\* artifact["model"]: the loaded classifier, a function of the vector that is
\* fixed by the artifact.  Its positive-class probability is
\* intercept + coef . x, kept within [0, 1].
Intercepts == {0, 29940, 69940, 99940}
Models == {[intercept |-> b, coef |-> << 20, 30 >>] : b \in Intercepts}

RECURSIVE Dot(_, _)
Dot(coef, x) ==
    IF coef = << >> \/ x = << >> THEN 0
    ELSE coef[1] * x[1] + Dot(Tail(coef), Tail(x))

\* Line 58: model.predict_proba(x)[0, 1].
PredictProba(mdl, x) == Clip(mdl.intercept + Dot(mdl.coef, x), 0, ONE)

\* The JSON values of a features mapping.
Num(n) == [type |-> "number", number |-> n, text |-> ""]
Str(t) == [type |-> "string", number |-> 0, text |-> t]
Names == {"f1", "f2", "zz"}
ValuesOf(name) ==
    IF name = "f1" THEN {Num(1), Str("abc")}
    ELSE IF name = "f2" THEN {Num(2)}
    ELSE {Str("abc")}
JsonValues == UNION {ValuesOf(n) : n \in Names}

\* The features mappings of the requests: any subset of the names.
Payloads ==
    UNION {{f \in [D -> JsonValues] : \A n \in D : f[n] \in ValuesOf(n)} : D \in SUBSET Names}

\* The strings float() parses, with their values.
NumericStrings == [t \in {"0", "1", "2"} |-> IF t = "0" THEN 0 ELSE IF t = "1" THEN 1 ELSE 2]

\* Line 55: float(v).  A number is its own value, a string is parsed, and a
\* string that is no number raises ValueError.
Float(v) ==
    IF v.type = "number" THEN [ok |-> TRUE, value |-> v.number]
    ELSE IF v.text \in DOMAIN NumericStrings
         THEN [ok |-> TRUE, value |-> NumericStrings[v.text]]
         ELSE [ok |-> FALSE, value |-> 0]

\* Line 55: payload.features.get(col, 0.0).
Get(features, col) == IF col \in DOMAIN features THEN features[col] ELSE Num(0)

RECURSIVE BuildVectorPresentOnly(_, _)
BuildVectorPresentOnly(features, cols) ==
    IF cols = << >> THEN [ok |-> TRUE, x |-> << >>]
    ELSE LET rest == BuildVectorPresentOnly(features, Tail(cols))
         IN  IF cols[1] \notin DOMAIN features THEN rest
             ELSE IF Float(features[cols[1]]).ok /\ rest.ok
                  THEN [ok |-> TRUE, x |-> << Float(features[cols[1]]).value >> \o rest.x]
                  ELSE [ok |-> FALSE, x |-> << >>]

\* Line 55: [float(payload.features.get(col, 0.0)) for col in feature_cols].
\* ok is FALSE when a float() raised.
RECURSIVE BuildVector(_, _)
BuildVector(features, cols) ==
    IF cols = << >> THEN [ok |-> TRUE, x |-> << >>]
    ELSE LET first == Float(Get(features, cols[1]))
             rest == BuildVector(features, Tail(cols))
         IN  IF first.ok /\ rest.ok
             THEN [ok |-> TRUE, x |-> << first.value >> \o rest.x]
             ELSE [ok |-> FALSE, x |-> << >>]

LOW_RISK == "Low risk: continue normal operation, routine monitoring."
MODERATE_RISK == "Moderate risk: schedule inspection in the next maintenance window."
HIGH_RISK == "High risk: schedule maintenance as soon as possible to avoid unplanned downtime."
CUT_LOW == 30000
CUT_HIGH == 70000

RecommendationLE(proba) ==
    IF proba <= CUT_LOW THEN LOW_RISK
    ELSE IF proba <= CUT_HIGH THEN MODERATE_RISK
    ELSE HIGH_RISK

\* Lines 61-66.
Recommendation(proba) ==
    IF proba < CUT_LOW THEN LOW_RISK
    ELSE IF proba < CUT_HIGH THEN MODERATE_RISK
    ELSE HIGH_RISK

\* Line 69: round(float(proba), 3), in thousandths.  Python rounds a tie to
\* the even neighbour.
Round3(proba) ==
    LET q == proba \div 100
        r == proba % 100
    IN  IF r < 50 THEN q
        ELSE IF r > 50 THEN q + 1
        ELSE IF q % 2 = 0 THEN q ELSE q + 1

PredictionOfRounded(proba) ==
    [ failure_probability_24h |-> Round3(proba),
      recommendation |-> Recommendation(Round3(proba) * 100) ]

\* Lines 61-71: the body predict_failure_24h returns.
Prediction(proba) ==
    [ failure_probability_24h |-> Round3(proba),
      recommendation |-> Recommendation(proba) ]

Ok(body) == [status |-> 200, body |-> body]
\* An exception that leaves a handler: the framework answers 500.
InternalServerError == [status |-> 500, body |-> [detail |-> "Internal Server Error"]]
NoResponse == [status |-> 0, body |-> [detail |-> ""]]

IdleSlot == [kind |-> "idle", pc |-> "idle", features |-> << >>, x |-> << >>,
             proba |-> -1, response |-> NoResponse]

\* Lines 9-12: the artifact is loaded when the service starts.
ApiStarted ==
    /\ model \in Models
    /\ feature_cols = FEATURES
    /\ slots = [s \in Slots |-> IdleSlot]

\* A request arrives and is given to a handler.
Receive(s) ==
    /\ slots[s].kind = "idle"
    /\ \/ \E kind \in {"root", "sample"} :
             slots' = [slots EXCEPT ![s] = [IdleSlot EXCEPT !.kind = kind, !.pc = "start"]]
       \/ \E features \in Payloads :
             slots' = [slots EXCEPT ![s] =
                 [IdleSlot EXCEPT !.kind = "predict", !.pc = "start", !.features = features]]
    /\ UNCHANGED <<pc, m, all_data, data, output, rng, workers, calls, model, feature_cols>>

\* Lines 36-41.
read_root(s) ==
    /\ slots[s].kind = "root" /\ slots[s].pc = "start"
    /\ slots' = [slots EXCEPT
           ![s].pc = "done",
           ![s].response = Ok([ message |-> "Predictive Maintenance API is running.",
                                model_features_count |-> Len(feature_cols) ])]
    /\ UNCHANGED <<pc, m, all_data, data, output, rng, workers, calls, model, feature_cols>>

SAMPLE_SIZE == 10

\* Lines 77-90.
sample_payload(s) ==
    /\ slots[s].kind = "sample" /\ slots[s].pc = "start"
    /\ LET head == SubSeq(feature_cols, 1, Min(SAMPLE_SIZE, Len(feature_cols)))
           example_features == [col \in {head[i] : i \in 1..Len(head)} |-> 0]
       IN  slots' = [slots EXCEPT
               ![s].pc = "done",
               ![s].response = Ok([ note |-> "Use these feature keys in the 'features' dict when POSTing to /predict_24h.",
                                    features_example |-> example_features ])]
    /\ UNCHANGED <<pc, m, all_data, data, output, rng, workers, calls, model, feature_cols>>

PredictBuildDroppingColumn(s) ==
    /\ slots[s].kind = "predict" /\ slots[s].pc = "start"
    /\ LET built == BuildVector(slots[s].features, feature_cols)
       IN  slots' = [slots EXCEPT
               ![s].pc = IF built.ok THEN "built" ELSE "done",
               ![s].x = built.x,
               ![s].response = IF built.ok THEN @ ELSE InternalServerError]
    /\ feature_cols' = IF Len(feature_cols) > 1 THEN Tail(feature_cols) ELSE feature_cols
    /\ UNCHANGED <<pc, m, all_data, data, output, rng, workers, calls, model>>

\* Lines 48-55: predict_failure_24h builds the vector; a float() that raises
\* ends the request.
PredictBuild(s) ==
    /\ slots[s].kind = "predict" /\ slots[s].pc = "start"
    /\ LET built == BuildVector(slots[s].features, feature_cols)
       IN  slots' = [slots EXCEPT
               ![s].pc = IF built.ok THEN "built" ELSE "done",
               ![s].x = built.x,
               ![s].response = IF built.ok THEN @ ELSE InternalServerError]
    /\ UNCHANGED <<pc, m, all_data, data, output, rng, workers, calls, model, feature_cols>>

\* Lines 57-71: predict_failure_24h scores the vector and returns.
PredictRespond(s) ==
    /\ slots[s].kind = "predict" /\ slots[s].pc = "built"
    /\ LET proba == PredictProba(model, slots[s].x)
       IN  slots' = [slots EXCEPT
               ![s].pc = "done",
               ![s].proba = proba,
               ![s].response = Ok(Prediction(proba))]
    /\ UNCHANGED <<pc, m, all_data, data, output, rng, workers, calls, model, feature_cols>>

\* The response is sent and the slot is free again.
Send(s) ==
    /\ slots[s].pc = "done"
    /\ slots' = [slots EXCEPT ![s] = IdleSlot]
    /\ UNCHANGED <<pc, m, all_data, data, output, rng, workers, calls, model, feature_cols>>

InitApi == SimInit /\ ApiStarted
NextApi ==
    \E s \in Slots :
        \/ Receive(s)
        \/ read_root(s)
        \/ sample_payload(s)
        \/ PredictBuild(s)
        \/ PredictRespond(s)
        \/ Send(s)
SpecApi == InitApi /\ [][NextApi]_vars

(***************************************************************************)
(* Claims about generate_data.py, checked under Spec                       *)
(***************************************************************************)
\* The frames are looked at while the loop over the machines appends them
\* and when it has ended; the steps after the loop leave all_data as it is.
FramesGrowing == pc = "simulate"

\* The stress of one step as the claim words it: every threshold the step's
\* own reading strictly exceeds adds its increment.
ClaimedStress(temp_t, vibration_t, load_t) ==
    LET Add(exceeds, increment) == IF exceeds THEN increment ELSE 0
    IN  Add(temp_t > 65, 500) + Add(temp_t > 75, 1000) + Add(temp_t > 85, 1500)
      + Add(vibration_t > 18, 700) + Add(vibration_t > 22, 1200)
      + Add(vibration_t > 26, 1800)
      + Add(load_t > 80, 500) + Add(load_t > 90, 1000)

FollowsRecurrence(frame, base) ==
    \A i \in 2..N_STEPS :
        frame.health_score[i] =
            Max(0, frame.health_score[i - 1]
                   - (base + ClaimedStress(frame.temp_c[i], frame.vibration_ms2[i],
                                           frame.load_pct[i])))

\* C1: in every frame simulate_machine returned there is one base wear rate of
\* the drawn range such that, at every timestep t > 0,
\* health_score[t] = max(0, health_score[t-1] - (base + stress[t])), stress[t]
\* being the sum of the increments of the thresholds the readings of step t
\* strictly exceed.
C1_Recurrence ==
    FramesGrowing =>
        \A k \in 1..Len(all_data) :
            \E base \in BASE_WEAR_LO..BASE_WEAR_HI : FollowsRecurrence(all_data[k], base)

\* C1 witness: a returned frame with a reading exactly at a threshold, one
\* above all three temperature thresholds and one step without any stress.
C1_Witness ==
    \E k \in 1..Len(all_data) :
        /\ all_data[k].temp_c[2] = 65
        /\ all_data[k].health_score[2] \in {ONE - b : b \in BaseWearRates}
        /\ all_data[k].temp_c[7] > 85
        /\ all_data[k].health_score[6] - all_data[k].health_score[7] > 3000

\* C2: health_score is exactly 1.0 at timestep 0, whatever the readings at
\* t = 0; afterwards it stays within [0, 1], never rises, and once 0 stays 0.
C2_StartsAtOneAndDecays ==
    FramesGrowing =>
        \A k \in 1..Len(all_data) :
            /\ all_data[k].health_score[1] = ONE
            /\ \A i \in 2..N_STEPS :
                  LET prev == all_data[k].health_score[i - 1]
                      cur == all_data[k].health_score[i]
                  IN  /\ 0 <= cur /\ cur <= ONE
                      /\ cur <= prev
                      /\ (prev = 0 => cur = 0)

\* C2 witness: a frame whose readings at t = 0 exceed every threshold, whose
\* score was clamped to 0 from a positive value and then stayed 0.
C2_Witness ==
    \E k \in 1..Len(all_data) :
        /\ all_data[k].temp_c[1] > 85 /\ all_data[k].vibration_ms2[1] > 26
        /\ all_data[k].load_pct[1] > 90
        /\ all_data[k].health_score[1] = ONE
        /\ \E i \in 2..40 : /\ all_data[k].health_score[i - 1] \in 1..8000
                            /\ all_data[k].health_score[i] = 0
        /\ all_data[k].health_score[N_STEPS] = 0

HasFailedColumn(table) == Len(table.failed) = Len(table.health_score) /\ Len(table.failed) > 0

\* Row i is the first row of its machine.
FirstRowOfMachine(table, i) == i = 1 \/ table.machine_id[i - 1] # table.machine_id[i]

\* C3: in the table with its failed column, failed = 1 exactly on the rows whose
\* health_score is below 0.3 while the row before it of the same machine (one
\* timestamp earlier) is at or above 0.3; a machine's first row counts as
\* having a not-low predecessor, whatever the last row of the machine before.
C3_FailedIsCrossing ==
    HasFailedColumn(data) =>
        \A i \in 1..Len(data.failed) :
            /\ data.failed[i] \in {0, 1}
            /\ ~FirstRowOfMachine(data, i) => data.timestamp[i - 1] = data.timestamp[i] - 1
            /\ data.failed[i] = 1 <=>
                  /\ data.health_score[i] < 30000
                  /\ \/ FirstRowOfMachine(data, i)
                     \/ data.health_score[i - 1] >= 30000

\* C3 witness: the failed column is derived; a machine whose score passed
\* through exactly 0.3 fails on the next row only, and the machine after one
\* that ended low starts with failed = 0.
C3_Witness ==
    /\ HasFailedColumn(data)
    /\ \E i \in 2..Len(data.failed) :
          /\ data.health_score[i - 1] = 30000 /\ data.failed[i - 1] = 0
          /\ data.failed[i] = 1
    /\ \E i \in 2..Len(data.failed) :
          /\ FirstRowOfMachine(data, i)
          /\ data.health_score[i - 1] < 30000
          /\ data.failed[i] = 0

\* C4: with N_STEPS timesteps and a base wear rate of [0.00015, 0.0003], the
\* table holds exactly one row with failed = 1 for every simulated machine.
C4_OneFailurePerMachine ==
    HasFailedColumn(data) =>
        \A k \in Machines :
            Cardinality({i \in 1..Len(data.failed) :
                            data.machine_id[i] = k /\ data.failed[i] = 1}) = 1

\* C4 witness: a machine that never met any stress and wore at the lowest
\* rate fails once, at timestep 4667.
C4_Witness ==
    /\ HasFailedColumn(data)
    /\ \E i \in 1..Len(data.failed) :
          /\ data.timestamp[i] = 4667
          /\ data.health_score[i] = ONE - 4667 * BASE_WEAR_LO
          /\ data.failed[i] = 1

(***************************************************************************)
(* Claim about the shared generator, checked under SpecSeeded              *)
(***************************************************************************)
MachineOf(frame) == frame.machine_id[1]

DrewInSequentialPlace(w) ==
    /\ workers[w].block = NBlocks
    /\ workers[w].first = w * CALLS_PER_MACHINE
    /\ workers[w].last = (w + 1) * CALLS_PER_MACHINE

InPredict(s) == slots[s].kind = "predict"
Answered(s) == InPredict(s) /\ slots[s].pc = "done"
Scored(s) == Answered(s) /\ slots[s].response.status = 200

\* Every value the mapping holds for an expected name is a number.
ExpectedAreNumbers(features) ==
    \A i \in 1..Len(feature_cols) :
        feature_cols[i] \in DOMAIN features => features[feature_cols[i]].type = "number"

\* The recommendation the claims give for a probability: [0, 0.3) low,
\* [0.3, 0.7) moderate, [0.7, 1.0] high.
ClaimedBand(p) ==
    IF p >= 0 /\ p < 30000 THEN LOW_RISK
    ELSE IF p >= 30000 /\ p < 70000 THEN MODERATE_RISK
    ELSE HIGH_RISK

\* C5: for every mapping whose expected values are numbers, the vector has
\* one entry per expected name, in the order of feature_cols: the mapping's
\* value where the name is present and 0 where it is absent.  Names outside
\* feature_cols change nothing, and the request is answered with a
\* probability and a recommendation, never with an error.
C5_VectorFromExpectedNames ==
    \A s \in Slots :
        (InPredict(s) /\ slots[s].pc \in {"built", "done"} /\ ExpectedAreNumbers(slots[s].features)) =>
            /\ Len(slots[s].x) = Len(feature_cols)
            /\ \A i \in 1..Len(feature_cols) :
                   slots[s].x[i] =
                       IF feature_cols[i] \in DOMAIN slots[s].features
                       THEN slots[s].features[feature_cols[i]].number
                       ELSE 0
            /\ slots[s].pc = "done" =>
                   /\ slots[s].response.status = 200
                   /\ DOMAIN slots[s].response.body = {"failure_probability_24h", "recommendation"}

\* C5 witness: a request without f1 and with the unexpected name zz was
\* answered from the vector [0, 2], and one with the empty mapping from
\* [0, 0].
C5_Witness ==
    \E s, t \in Slots :
        /\ Scored(s)
        /\ DOMAIN slots[s].features = {"f2", "zz"}
        /\ slots[s].x = << 0, 2 >>
        /\ Scored(t)
        /\ DOMAIN slots[t].features = {}
        /\ slots[t].x = << 0, 0 >>
        /\ DOMAIN slots[t].response.body = {"failure_probability_24h", "recommendation"}

\* C6: the recommendation of an answered prediction is the low-risk string
\* for a probability in [0, 0.3), the moderate-risk string in [0.3, 0.7) and
\* the high-risk string in [0.7, 1.0].
C6_RecommendationBands ==
    \A s \in Slots :
        Scored(s) =>
            /\ slots[s].proba >= 0 /\ slots[s].proba <= ONE
            /\ slots[s].proba = PredictProba(model, slots[s].x)
            /\ slots[s].response.body.recommendation = ClaimedBand(slots[s].proba)

\* C6 witness: a probability of exactly 0.3 was answered as moderate risk.
C6_Witness ==
    \E s \in Slots :
        /\ Scored(s)
        /\ slots[s].proba = 30000
        /\ slots[s].response.body.recommendation = MODERATE_RISK

\* C7: a request holding a non-numeric value for an expected name is
\* answered with a client (invalid input) error, not an internal failure.
C7_InvalidInputIsClientError ==
    \A s \in Slots :
        (Answered(s) /\ ~ExpectedAreNumbers(slots[s].features)) =>
            /\ slots[s].response.status >= 400
            /\ slots[s].response.status <= 499

\* C8: no step of any handler changes model or feature_cols, and requests
\* with the same mapping get the same answer, whether they are answered side
\* by side or one after the other.
C8_ArtifactReadOnly ==
    /\ [][ /\ model' = model
           /\ feature_cols' = feature_cols
           /\ \A s, t \in Slots :
                  (Answered(s) /\ Answered(t)' /\ slots[s].features = slots'[t].features) =>
                      slots[s].response = slots'[t].response ]_vars
    /\ [](\A s, t \in Slots :
              (Answered(s) /\ Answered(t) /\ slots[s].features = slots[t].features) =>
                  slots[s].response = slots[t].response)

\* C8 witness: two predict requests with the same mapping are answered while
\* both are in flight.
C8_Witness ==
    /\ Scored(1) /\ Scored(2)
    /\ slots[1].features = slots[2].features
    /\ slots[1].response = slots[2].response
    /\ model \in Models /\ feature_cols = FEATURES

\* Within 0.0005 below a cut point.
JustBelowCut(p) == \E cut \in {30000, 70000} : p >= cut - 50 /\ p < cut

\* C10: the reported number is the probability rounded to 3 decimals, the
\* recommendation is the band of the unrounded probability, and the band of
\* the reported number is that same band unless the probability is within
\* 0.0005 below a cut point.
C10_BandOfUnrounded ==
    \A s \in Slots :
        Scored(s) =>
            LET p == slots[s].proba
                reported == slots[s].response.body.failure_probability_24h * 100
            IN  /\ reported - p <= 50 /\ p - reported <= 50
                /\ reported % 100 = 0
                /\ slots[s].response.body.recommendation = ClaimedBand(p)
                /\ ~JustBelowCut(p) => ClaimedBand(reported) = slots[s].response.body.recommendation

\* C10 witness: 0.2996 is reported as 0.3 with the low-risk recommendation.
C10_Witness ==
    \E s \in Slots :
        /\ Scored(s)
        /\ slots[s].proba = 29960
        /\ slots[s].response.body.failure_probability_24h = 300
        /\ slots[s].response.body.recommendation = LOW_RISK
        /\ ClaimedBand(300 * 100) = MODERATE_RISK

====
